---- MODULE Spec2Model ----
(***************************************************************************)
(* Model of rune's src/utils/utils.rs: the assignment mini-language        *)
(* parsers (to_key, to_valtype, to_assignment, convert_to_u64) and the     *)
(* context bootstrapper new_ctx.                                           *)
(*                                                                         *)
(* A string is a sequence of characters; a character is a one-character    *)
(* TLA+ string, except "U+00E9" which stands for the two-byte UTF-8        *)
(* character e-acute.  A machine word (usize/u64 on a 64-bit target) is a  *)
(* big-endian sequence of NumNibbles hexadecimal digits, so that parsing   *)
(* keeps its 64-bit width.                                                 *)
(***************************************************************************)
EXTENDS Integers, Sequences, FiniteSets, TLC

VARIABLES
    call,       \* the parser entry point last called and its argument
    ret,        \* what that call produced (a value, or a panic)
    pc,         \* position of new_ctx
    r2,         \* the platform handle: what reg_info / bin_info answer
    syms,       \* new_ctx argument: Option<Vec<Key>>
    consts,     \* new_ctx argument: Option<Vec<(Key, u64)>>
    ctx,        \* the RuneContext under construction
    idx,        \* index of the loop new_ctx is in
    calls       \* the store operations new_ctx has issued, in order

parseVars == <<call, ret>>
ctxVars == <<pc, r2, syms, consts, ctx, idx, calls>>
vars == <<call, ret, pc, r2, syms, consts, ctx, idx, calls>>

---------------------------------------------------------------------------
(* Bounds of the model *)

MaxTokLen == 3      \* enumerated tokens have 1..MaxTokLen characters
MaxPad == 1         \* spaces put around each side of an assignment line
MaxSeps == 2        \* '=' separators in an assignment line: 0..MaxSeps
MaxRegs == 2        \* registers in the layout the platform reports
MaxSyms == 2        \* entries of the syms vector
MaxConsts == 2      \* entries of the consts vector

---------------------------------------------------------------------------
(* Characters and strings *)

UsizeBits == 64     \* usize and u64 have the same width on the 64-bit target
NumNibbles == UsizeBits \div 4

DecDigits == <<"0", "1", "2", "3", "4", "5", "6", "7", "8", "9">>
LowerHex == <<"a", "b", "c", "d", "e", "f">>
UpperHex == <<"A", "B", "C", "D", "E", "F">>

MultiByte == {"U+00E9"}

\* str::len counts bytes
ByteLen(c) == IF c \in MultiByte THEN 2 ELSE 1

RECURSIVE len(_)
len(v) == IF v = <<>> THEN 0 ELSE ByteLen(Head(v)) + len(Tail(v))

\* byte offset at which character k of v starts
RECURSIVE ByteOffset(_, _)
ByteOffset(v, k) == IF k <= 1 THEN 0 ELSE ByteOffset(v, k - 1) + ByteLen(v[k - 1])

is_char_boundary(v, i) ==
    \/ i = 0
    \/ i = len(v)
    \/ \E k \in 1..Len(v) : ByteOffset(v, k) = i

\* &v[a..b]: defined only when a and b are character boundaries
ByteSlice(v, a, b) ==
    LET ks == {k \in 1..Len(v) : ByteOffset(v, k) >= a /\ ByteOffset(v, k) < b}
    IN  IF ks = {} THEN <<>>
        ELSE LET lo == CHOOSE k \in ks : \A j \in ks : k <= j
                 hi == CHOOSE k \in ks : \A j \in ks : k >= j
             IN  SubSeq(v, lo, hi)

IndexIn(s, c) == CHOOSE i \in 1..Len(s) : s[i] = c
InSeq(s, c) == \E i \in 1..Len(s) : s[i] = c

\* char::to_digit(radix) for radix 10 and 16
HasDigit(c, radix) ==
    \/ InSeq(DecDigits, c)
    \/ radix = 16 /\ (InSeq(LowerHex, c) \/ InSeq(UpperHex, c))

to_digit(c, radix) ==
    IF InSeq(DecDigits, c) THEN IndexIn(DecDigits, c) - 1
    ELSE IF InSeq(LowerHex, c) THEN IndexIn(LowerHex, c) + 9
    ELSE IndexIn(UpperHex, c) + 9

is_digit(c, radix) == HasDigit(c, radix)

is_whitespace(c) == c \in {" ", "\t"}

RECURSIVE trim_start(_)
trim_start(s) ==
    IF s # <<>> /\ is_whitespace(Head(s)) THEN trim_start(Tail(s)) ELSE s

RECURSIVE trim_end(_)
trim_end(s) ==
    IF s # <<>> /\ is_whitespace(s[Len(s)])
    THEN trim_end(SubSeq(s, 1, Len(s) - 1)) ELSE s

trim(s) == trim_end(trim_start(s))

\* v.split('=').collect(): the segments between separators, in order
RECURSIVE SplitAcc(_, _, _)
SplitAcc(s, sep, cur) ==
    IF s = <<>> THEN <<cur>>
    ELSE IF Head(s) = sep THEN <<cur>> \o SplitAcc(Tail(s), sep, <<>>)
    ELSE SplitAcc(Tail(s), sep, Append(cur, Head(s)))

split(s, sep) == SplitAcc(s, sep, <<>>)

---------------------------------------------------------------------------
(* Machine words *)

Zero == [i \in 1..NumNibbles |-> 0]

\* val * m + carry over the word, least significant digit first
RECURSIVE ScaleFrom(_, _, _, _)
ScaleFrom(val, i, m, carry) ==
    IF i = 0 THEN [val |-> val, carry |-> carry]
    ELSE LET t == val[i] * m + carry
         IN  ScaleFrom([val EXCEPT ![i] = t % 16], i - 1, m, t \div 16)

checked_mul(val, m) ==
    LET r == ScaleFrom(val, NumNibbles, m, 0)
    IN  [ok |-> r.carry = 0, val |-> r.val]

checked_add(val, d) ==
    LET r == ScaleFrom(val, NumNibbles, 1, d)
    IN  [ok |-> r.carry = 0, val |-> r.val]

\* the digit loop of from_str_radix
RECURSIVE ParseDigits(_, _, _)
ParseDigits(digits, radix, acc) ==
    IF digits = <<>> THEN [ok |-> TRUE, val |-> acc]
    ELSE IF ~HasDigit(Head(digits), radix) THEN [ok |-> FALSE, val |-> Zero]
    ELSE LET m == checked_mul(acc, radix)
         IN  IF ~m.ok THEN [ok |-> FALSE, val |-> Zero]
             ELSE LET a == checked_add(m.val, to_digit(Head(digits), radix))
                  IN  IF ~a.ok THEN [ok |-> FALSE, val |-> Zero]
                      ELSE ParseDigits(Tail(digits), radix, a.val)

\* usize::from_str_radix: an optional leading '+', then at least one digit
from_str_radix(src, radix) ==
    IF src = <<>> THEN [ok |-> FALSE, val |-> Zero]
    ELSE LET digits == IF Head(src) = "+" THEN Tail(src) ELSE src
         IN  IF digits = <<>> THEN [ok |-> FALSE, val |-> Zero]
             ELSE ParseDigits(digits, radix, Zero)

---------------------------------------------------------------------------
(* Results.  A call either panics (the process aborts) or returns. *)

Panicked == [panic |-> TRUE]
None == [panic |-> FALSE, some |-> FALSE]
SomeNum(n) == [panic |-> FALSE, some |-> TRUE, num |-> n]
SomeVal(r) == [panic |-> FALSE, some |-> TRUE, val |-> r]
SomeAssignment(l, r) == [panic |-> FALSE, some |-> TRUE, lvalue |-> l, rvalue |-> r]
KeyOf(k) == [panic |-> FALSE, key |-> k]

\* enum Key
Mem(a) == [tag |-> "Mem", addr |-> a]
Reg(n) == [tag |-> "Reg", name |-> n]

\* enum ValType (Break and Unknown are declared and never constructed here)
Concrete(n) == [tag |-> "Concrete", n |-> n]
Symbolic == [tag |-> "Symbolic"]
ValTypeTags == {"Concrete", "Symbolic", "Break", "Unknown"}

HexPrefix == <<"0", "x">>

---------------------------------------------------------------------------
(* The parsers *)

convert_to_u64(v) ==
    IF len(v) > 2 /\ ~is_char_boundary(v, 2) THEN Panicked
    ELSE IF len(v) > 2 /\ ByteSlice(v, 0, 2) = HexPrefix
    THEN LET p == from_str_radix(ByteSlice(v, 2, len(v)), 16)
         IN  IF p.ok THEN SomeNum(p.val) ELSE None
    ELSE IF v = <<>> THEN Panicked
    ELSE IF is_digit(Head(v), 10)
    THEN LET p == from_str_radix(v, 10)
         IN  IF p.ok THEN SomeNum(p.val) ELSE None
    ELSE None

to_key(v) ==
    IF len(v) > 2 /\ ~is_char_boundary(v, 2) THEN Panicked
    ELSE IF len(v) > 2 /\ ByteSlice(v, 0, 2) = HexPrefix
    THEN LET p == from_str_radix(ByteSlice(v, 2, len(v)), 16)
         IN  IF p.ok THEN KeyOf(Mem(p.val)) ELSE Panicked
    ELSE IF v = <<>> THEN Panicked
    ELSE IF is_digit(Head(v), 10)
    THEN LET p == from_str_radix(v, 10)
         IN  IF p.ok THEN KeyOf(Mem(p.val)) ELSE Panicked
    ELSE KeyOf(Reg(v))

to_valtype(v) ==
    IF v = <<"S", "Y", "M">> THEN SomeVal(Symbolic)
    ELSE LET c == convert_to_u64(v)
         IN  IF c.panic THEN Panicked
             ELSE IF c.some THEN SomeVal(Concrete(c.num))
             ELSE None

to_assignment(v) ==
    LET ops == split(v, "=")
        lvalue == to_key(trim(ops[1]))
    IN  IF lvalue.panic THEN Panicked
        ELSE IF Len(ops) < 2 THEN Panicked
        ELSE LET rvalue == to_valtype(trim(ops[2]))
             IN  IF rvalue.panic THEN Panicked
                 ELSE IF rvalue.some THEN SomeAssignment(lvalue.key, rvalue.val)
                 ELSE None

---------------------------------------------------------------------------
(* Inputs of the parsers *)

Rep(c, n) == [i \in 1..n |-> c]
Numeral(ds) == [i \in 1..Len(ds) |-> DecDigits[ds[i] + 1]]

TokAlphabet == {"0", "1", "9", "f", "F", "Z", "x", "+", "-", "U+00E9"}

ShortTokens == UNION {[1..n -> TokAlphabet] : n \in 1..MaxTokLen}

U64MaxDec == Numeral(<<1,8,4,4,6,7,4,4,0,7,3,7,0,9,5,5,1,6,1,5>>)
U64OverDec == Numeral(<<1,8,4,4,6,7,4,4,0,7,3,7,0,9,5,5,1,6,1,6>>)

NamedTokens ==
    { <<"S", "Y", "M">>, <<"S", "Y">>, <<"S", "Y", "M", "S">>, <<"s", "y", "m">>,
      <<"r", "a", "x">>, <<"r", "b", "x">>, <<"r", "9">>,
      <<"0", "x", "1", "0">>, <<"0", "x", "1", "0", "0", "0">>,
      <<"4", "2">>, <<"0", "0", "4", "2">>, <<"0", "x", "Z", "Z">>, <<"1", "2", "x">>,
      <<"0", "X", "1", "0">>, <<"0", "x", "a", "B", "c", "D">>,
      <<"0", "x", "+", "1">>, <<"a", "U+00E9">>, <<"4", "U+00E9">>,
      HexPrefix \o Rep("f", NumNibbles),
      HexPrefix \o Rep("0", NumNibbles) \o <<"1">>,
      HexPrefix \o <<"1">> \o Rep("0", NumNibbles),
      U64MaxDec, U64OverDec, <<"0", "0">> \o U64MaxDec, Rep("9", Len(U64MaxDec)) }

\* the non-empty tokens handed to to_key, to_valtype and convert_to_u64
Tokens == ShortTokens \cup NamedTokens

\* the location and value sides tried in assignment lines
SideTokens ==
    { <<>>, <<"r", "a", "x">>, <<"r", "b", "x">>, <<"S", "Y", "M">>,
      <<"0", "x", "1", "0">>, <<"0", "x", "1", "0", "0", "0">>, <<"4", "2">>,
      <<"0", "x", "Z", "Z">>, <<"1", "2", "x">>, <<"a", "U+00E9">>,
      <<"r", " ", "x">>, HexPrefix \o <<"1">> \o Rep("0", NumNibbles) }

Sides == {Rep(" ", a) \o t \o Rep(" ", b) : a \in 0..MaxPad, b \in 0..MaxPad, t \in SideTokens}

\* what may follow a second, third, ... separator
ExtraSides == {<<>>, <<"1">>}

RECURSIVE Extras(_)
Extras(k) ==
    IF k = 0 THEN {<<>>}
    ELSE {<<"=">> \o e \o rest : e \in ExtraSides, rest \in Extras(k - 1)}

Lines ==
    Sides \cup
    {l \o <<"=">> \o r \o x : l \in Sides, r \in Sides,
                             x \in UNION {Extras(k) : k \in 0..(MaxSeps - 1)}}

CountSeps(s) == Cardinality({i \in 1..Len(s) : s[i] = "="})

---------------------------------------------------------------------------
(* The parser entry points as a state machine: the input is drawn at      *)
(* start, a call applies one entry point to it.                           *)

Idle == [panic |-> FALSE, idle |-> TRUE]

NoAnswer == [reg_info |-> "pending", regs |-> <<>>, bin_info |-> "pending"]
NoVec == [some |-> FALSE, vec |-> <<>>]
NoCtx == [built |-> FALSE, regs |-> <<>>, mem |-> <<>>]

\* new_ctx is not running
ctxIdle ==
    /\ pc = "idle"
    /\ r2 = NoAnswer
    /\ syms = NoVec
    /\ consts = NoVec
    /\ ctx = NoCtx
    /\ idx = 0
    /\ calls = <<>>

InitParse ==
    /\ call \in {[fn |-> "none", arg |-> t] : t \in Tokens \cup Lines}
    /\ ret = Idle
    /\ ctxIdle

CallToKey ==
    /\ call.fn = "none" /\ call.arg \in Tokens
    /\ call' = [call EXCEPT !.fn = "to_key"]
    /\ ret' = to_key(call.arg)
    /\ UNCHANGED ctxVars

CallToValtype ==
    /\ call.fn = "none" /\ call.arg \in Tokens
    /\ call' = [call EXCEPT !.fn = "to_valtype"]
    /\ ret' = to_valtype(call.arg)
    /\ UNCHANGED ctxVars

CallConvertToU64 ==
    /\ call.fn = "none" /\ call.arg \in Tokens
    /\ call' = [call EXCEPT !.fn = "convert_to_u64"]
    /\ ret' = convert_to_u64(call.arg)
    /\ UNCHANGED ctxVars

CallToAssignment ==
    /\ call.fn = "none" /\ call.arg \in Lines
    /\ call' = [call EXCEPT !.fn = "to_assignment"]
    /\ ret' = to_assignment(call.arg)
    /\ UNCHANGED ctxVars


---------------------------------------------------------------------------
(* What a numeral denotes, stated independently of the parsing loop *)

DigitValue ==
    "0" :> 0 @@ "1" :> 1 @@ "2" :> 2 @@ "3" :> 3 @@ "4" :> 4 @@ "5" :> 5 @@
    "6" :> 6 @@ "7" :> 7 @@ "8" :> 8 @@ "9" :> 9 @@
    "a" :> 10 @@ "b" :> 11 @@ "c" :> 12 @@ "d" :> 13 @@ "e" :> 14 @@ "f" :> 15 @@
    "A" :> 10 @@ "B" :> 11 @@ "C" :> 12 @@ "D" :> 13 @@ "E" :> 14 @@ "F" :> 15

AllDecimal(s) == \A i \in 1..Len(s) : s[i] \in DOMAIN DigitValue /\ DigitValue[s[i]] < 10
AllHex(s) == \A i \in 1..Len(s) : s[i] \in DOMAIN DigitValue

\* the word whose hexadecimal expansion is ds (at most NumNibbles digits)
HexValue(ds) ==
    LET pad == NumNibbles - Len(ds)
    IN  [i \in 1..NumNibbles |-> IF i > pad THEN DigitValue[ds[i - pad]] ELSE 0]

\* long division of a word by ten, most significant digit first
RECURSIVE DivTen(_, _, _)
DivTen(val, i, rem) ==
    IF i > NumNibbles THEN [q |-> val, r |-> rem]
    ELSE LET t == rem * 16 + val[i]
         IN  DivTen([val EXCEPT ![i] = t \div 10], i + 1, t % 10)

\* the decimal expansion of a word, without leading zeros
RECURSIVE ToDecimal(_)
ToDecimal(val) ==
    LET d == DivTen(val, 1, 0)
    IN  IF d.q = Zero THEN <<DecDigits[d.r + 1]>>
        ELSE Append(ToDecimal(d.q), DecDigits[d.r + 1])

RECURSIVE StripZeros(_)
StripZeros(s) == IF Len(s) > 1 /\ Head(s) = "0" THEN StripZeros(Tail(s)) ELSE s

\* a <= b for decimal numerals of the same length
RECURSIVE NumeralLeq(_, _)
NumeralLeq(a, b) ==
    \/ a = <<>>
    \/ DigitValue[Head(a)] < DigitValue[Head(b)]
    \/ Head(a) = Head(b) /\ NumeralLeq(Tail(a), Tail(b))

FitsWord(t) ==
    LET s == StripZeros(t)
    IN  \/ Len(s) < Len(U64MaxDec)
        \/ Len(s) = Len(U64MaxDec) /\ NumeralLeq(s, U64MaxDec)

StartsWithHexPrefix(t) == Len(t) >= 3 /\ SubSeq(t, 1, 2) = HexPrefix
HexRest(t) == SubSeq(t, 3, Len(t))
LeadingDigit(t) == t # <<>> /\ AllDecimal(<<Head(t)>>)

\* matches the numeric heuristic
LooksNumeric(t) == StartsWithHexPrefix(t) \/ LeadingDigit(t)

\* matches the numeric heuristic and has a digit invalid for the base
Malformed(t) ==
    IF StartsWithHexPrefix(t) THEN ~AllHex(HexRest(t))
    ELSE LeadingDigit(t) /\ ~AllDecimal(t)

\* the two sides of a line with exactly one separator
SepAt(s) == CHOOSE i \in 1..Len(s) : s[i] = "="
LeftSide(s) == trim(SubSeq(s, 1, SepAt(s) - 1))
RightSide(s) == trim(SubSeq(s, SepAt(s) + 1, Len(s)))
WellFormedLine(s) == CountSeps(s) = 1 /\ LeftSide(s) # <<>> /\ RightSide(s) # <<>>

---------------------------------------------------------------------------
(* Claims about the parsers *)

\* C8: convert_to_u64 on a non-empty token: '0x' + 1..16 valid hex digits gives
\* Some(the base-16 value), an invalid hex digit gives None; a token with a
\* leading decimal digit gives Some(the exact base-10 value) when all its
\* characters are digits and the value fits the word, None otherwise; any
\* other token gives None.
C8_ConvertExact ==
    call.fn = "convert_to_u64" =>
        LET t == call.arg IN
        /\ ~ret.panic
        /\ IF StartsWithHexPrefix(t)
           THEN /\ (AllHex(HexRest(t)) /\ Len(HexRest(t)) <= NumNibbles)
                        => ret = SomeNum(HexValue(HexRest(t)))
                /\ ~AllHex(HexRest(t)) => ret = None
           ELSE IF LeadingDigit(t)
           THEN IF AllDecimal(t) /\ FitsWord(t)
                THEN ret.some /\ ToDecimal(ret.num) = StripZeros(t)
                ELSE ret = None
           ELSE ret = None

\* C6: to_valtype on a non-empty token is Some(Symbolic) exactly on "SYM",
\* Some(Concrete(n)) exactly when convert_to_u64 gives Some(n), None otherwise;
\* it never yields Break or Unknown.
C6_ValtypeClassifies ==
    call.fn = "to_valtype" =>
        LET t == call.arg
            c == convert_to_u64(t)
        IN  /\ ~ret.panic
            /\ IF t = <<"S", "Y", "M">> THEN ret = SomeVal(Symbolic)
               ELSE IF ~c.panic /\ c.some THEN ret = SomeVal(Concrete(c.num))
               ELSE ret = None
            /\ ret.some => ret.val.tag \in ValTypeTags \ {"Break", "Unknown"}

\* C7: to_key is total on non-empty tokens: Mem(n) with n the denoted address
\* for a token that looks numeric, Reg(token) for every other token.
C7_ToKeyTotal ==
    call.fn = "to_key" =>
        LET t == call.arg IN
        /\ ~ret.panic
        /\ ~LooksNumeric(t) => ret.key = Reg(t)
        /\ LooksNumeric(t) => ret.key.tag = "Mem"
        /\ (StartsWithHexPrefix(t) /\ AllHex(HexRest(t)) /\ Len(HexRest(t)) <= NumNibbles)
               => ret.key = Mem(HexValue(HexRest(t)))
        /\ (~StartsWithHexPrefix(t) /\ AllDecimal(t) /\ FitsWord(t))
               => ToDecimal(ret.key.addr) = StripZeros(t)

\* C4: a malformed numeral on either side of an assignment line makes
\* to_assignment return None; it never panics.
C4_MalformedRejected ==
    (/\ call.fn = "to_assignment"
     /\ WellFormedLine(call.arg)
     /\ Malformed(LeftSide(call.arg)) \/ Malformed(RightSide(call.arg)))
        => ret = None

\* C5: a line with no '=' or with more than one '=' makes to_assignment return
\* None: no out-of-range fault, no assignment built from some of the segments.
C5_SeparatorCountValidated ==
    (call.fn = "to_assignment" /\ CountSeps(call.arg) # 1) => ret = None

\* C3: on a line L '=' V with one '=' and non-empty trimmed sides, to_assignment
\* returns Some(to_key(trim L), r) exactly when to_valtype(trim V) = Some(r) and
\* None otherwise.
C3_AssignmentFollowsValue ==
    (call.fn = "to_assignment" /\ WellFormedLine(call.arg)) =>
        LET k == to_key(LeftSide(call.arg))
            r == to_valtype(RightSide(call.arg))
        IN  IF ~r.panic /\ r.some
            THEN ~k.panic /\ ret = SomeAssignment(k.key, r.val)
            ELSE ret = None

---------------------------------------------------------------------------
(* The register and memory stores behind RuneContext.  A register name is *)
(* known to the register file when the platform reported it; a store      *)
(* operation on an unknown register fails, and a failure aborts.          *)

CellWidth == 64

Unset == [tag |-> "Unset"]
Cell(state, width) == [state |-> state, width |-> width]

\* the word n, for n < 16, and the word n * 16^3
WordOf(n) == [Zero EXCEPT ![NumNibbles] = n]
PageOf(n) == [Zero EXCEPT ![NumNibbles - 3] = n]

\* register names and 64-bit cells (apart from each other) used in the model
RegNames == {<<"r", "a", "x">>, <<"r", "b", "x">>}
AddrPool == {PageOf(1), PageOf(2)}

\* RuneRegFile::new, QWordMemory::new and RuneContext::new
RuneContext_new(reg_info) ==
    [built |-> TRUE,
     regs |-> [n \in {reg_info[i] : i \in 1..Len(reg_info)} |-> Unset],
     mem |-> [a \in AddrPool |-> Unset]]

set_reg_as_sym(c, reg) ==
    IF reg \in DOMAIN c.regs
    THEN [ok |-> TRUE, ctx |-> [c EXCEPT !.regs[reg] = Symbolic]]
    ELSE [ok |-> FALSE, ctx |-> c]

set_reg_as_const(c, reg, v) ==
    IF reg \in DOMAIN c.regs
    THEN [ok |-> TRUE, ctx |-> [c EXCEPT !.regs[reg] = Concrete(v)]]
    ELSE [ok |-> FALSE, ctx |-> c]

set_mem_as_sym(c, addr, width) ==
    [ok |-> TRUE, ctx |-> [c EXCEPT !.mem[addr] = Cell(Symbolic, width)]]

set_mem_as_const(c, addr, v, width) ==
    [ok |-> TRUE, ctx |-> [c EXCEPT !.mem[addr] = Cell(Concrete(v), width)]]

\* entries of the log of store operations
RegSymCall(reg) == [op |-> "set_reg_as_sym", reg |-> reg]
RegConstCall(reg, v) == [op |-> "set_reg_as_const", reg |-> reg, val |-> v]
MemSymCall(addr, width) == [op |-> "set_mem_as_sym", addr |-> addr, width |-> width]
MemConstCall(addr, v, width) ==
    [op |-> "set_mem_as_const", addr |-> addr, val |-> v, width |-> width]

---------------------------------------------------------------------------
(* Inputs of new_ctx *)

SeqsUpTo(S, n) == UNION {[1..k -> S] : k \in 0..n}
Distinct(q) == \A i, j \in 1..Len(q) : q[i] = q[j] => i = j

\* register layouts the platform may report: distinct names
Layouts == {q \in SeqsUpTo(RegNames, MaxRegs) : Distinct(q)}

KeyPool == {Reg(n) : n \in RegNames} \cup {Mem(a) : a \in AddrPool}

ConstPool ==
    { [key |-> Reg(<<"r", "a", "x">>), val |-> WordOf(1)],
      [key |-> Mem(PageOf(1)), val |-> WordOf(1)],
      [key |-> Mem(PageOf(1)), val |-> WordOf(2)],
      [key |-> Mem(PageOf(2)), val |-> WordOf(1)] }

OptionVecs(S, n) == {NoVec} \cup {[some |-> TRUE, vec |-> q] : q \in SeqsUpTo(S, n)}

BinInfoAnswers == {"err", "no_bin", "no_bits", "no_endian", "ok"}

---------------------------------------------------------------------------
(* new_ctx, one step per statement or loop iteration *)

InitCtx ==
    /\ call = [fn |-> "new_ctx", arg |-> <<>>]
    /\ ret = Idle
    /\ pc = "reg_info"
    /\ r2 = NoAnswer
    /\ syms \in OptionVecs(KeyPool, MaxSyms)
    /\ consts \in OptionVecs(ConstPool, MaxConsts)
    /\ ctx = NoCtx
    /\ idx = 0
    /\ calls = <<>>

\* r2.reg_info().unwrap()
QueryRegInfo ==
    /\ pc = "reg_info"
    /\ \/ /\ r2' = [r2 EXCEPT !.reg_info = "err"]
          /\ pc' = "panicked"
       \/ \E layout \in Layouts :
             /\ r2' = [r2 EXCEPT !.reg_info = "ok", !.regs = layout]
             /\ pc' = "bin_info"
    /\ UNCHANGED <<syms, consts, ctx, idx, calls, parseVars>>

\* QueryBinInfo with the unwraps replaced by defaults: a failed query goes on
QueryBinInfo_OrDefault ==
    /\ pc = "bin_info"
    /\ \E answer \in BinInfoAnswers :
          /\ r2' = [r2 EXCEPT !.bin_info = answer]
          /\ pc' = "build"
    /\ UNCHANGED <<syms, consts, ctx, idx, calls, parseVars>>

\* r2.bin_info().unwrap().bin.unwrap(), bin.bits.unwrap(), bin.endian.unwrap()
QueryBinInfo ==
    /\ pc = "bin_info"
    /\ \E answer \in BinInfoAnswers :
          /\ r2' = [r2 EXCEPT !.bin_info = answer]
          /\ pc' = IF answer = "ok" THEN "build" ELSE "panicked"
    /\ UNCHANGED <<syms, consts, ctx, idx, calls, parseVars>>

\* the stores, the solver session and the context
BuildContext ==
    /\ pc = "build"
    /\ ctx' = RuneContext_new(r2.regs)
    /\ pc' = "syms"
    /\ idx' = 1
    /\ UNCHANGED <<r2, syms, consts, calls, parseVars>>

\* one iteration of the loop over syms, or its end
SymPass ==
    /\ pc = "syms"
    /\ IF syms.some /\ idx <= Len(syms.vec)
       THEN LET var == syms.vec[idx]
                res == IF var.tag = "Mem"
                       THEN set_mem_as_sym(ctx, var.addr, CellWidth)
                       ELSE set_reg_as_sym(ctx, var.name)
                entry == IF var.tag = "Mem"
                         THEN MemSymCall(var.addr, CellWidth)
                         ELSE RegSymCall(var.name)
            IN  /\ calls' = Append(calls, entry)
                /\ ctx' = res.ctx
                /\ pc' = IF res.ok THEN "syms" ELSE "panicked"
                /\ idx' = idx + 1
       ELSE /\ pc' = "consts"
            /\ idx' = 1
            /\ UNCHANGED <<ctx, calls>>
    /\ UNCHANGED <<r2, syms, consts, parseVars>>

\* ConstPass walking consts from its last entry to its first
ConstPass_Reversed ==
    /\ pc = "consts"
    /\ IF consts.some /\ idx <= Len(consts.vec)
       THEN LET k == consts.vec[Len(consts.vec) + 1 - idx].key
                v == consts.vec[Len(consts.vec) + 1 - idx].val
                res == IF k.tag = "Mem"
                       THEN set_mem_as_const(ctx, k.addr, v, CellWidth)
                       ELSE set_reg_as_const(ctx, k.name, v)
                entry == IF k.tag = "Mem"
                         THEN MemConstCall(k.addr, v, CellWidth)
                         ELSE RegConstCall(k.name, v)
            IN  /\ calls' = Append(calls, entry)
                /\ ctx' = res.ctx
                /\ pc' = IF res.ok THEN "consts" ELSE "panicked"
                /\ idx' = idx + 1
       ELSE /\ pc' = "defaults"
            /\ idx' = 1
            /\ UNCHANGED <<ctx, calls>>
    /\ UNCHANGED <<r2, syms, consts, parseVars>>

\* one iteration of the loop over consts, or its end
ConstPass ==
    /\ pc = "consts"
    /\ IF consts.some /\ idx <= Len(consts.vec)
       THEN LET k == consts.vec[idx].key
                v == consts.vec[idx].val
                res == IF k.tag = "Mem"
                       THEN set_mem_as_const(ctx, k.addr, v, CellWidth)
                       ELSE set_reg_as_const(ctx, k.name, v)
                entry == IF k.tag = "Mem"
                         THEN MemConstCall(k.addr, v, CellWidth)
                         ELSE RegConstCall(k.name, v)
            IN  /\ calls' = Append(calls, entry)
                /\ ctx' = res.ctx
                /\ pc' = IF res.ok THEN "consts" ELSE "panicked"
                /\ idx' = idx + 1
       ELSE /\ pc' = "defaults"
            /\ idx' = 1
            /\ UNCHANGED <<ctx, calls>>
    /\ UNCHANGED <<r2, syms, consts, parseVars>>

\* DefaultPass stopping one register short of the end of the layout
DefaultPass_OffByOne ==
    /\ pc = "defaults"
    /\ IF idx < Len(r2.regs)
       THEN LET res == set_reg_as_const(ctx, r2.regs[idx], Zero)
            IN  /\ calls' = Append(calls, RegConstCall(r2.regs[idx], Zero))
                /\ ctx' = res.ctx
                /\ pc' = IF res.ok THEN "defaults" ELSE "panicked"
                /\ idx' = idx + 1
       ELSE /\ pc' = "done"
            /\ UNCHANGED <<ctx, idx, calls>>
    /\ UNCHANGED <<r2, syms, consts, parseVars>>

\* one iteration of the loop over lreginfo.reg_info, or its end and the return
DefaultPass ==
    /\ pc = "defaults"
    /\ IF idx <= Len(r2.regs)
       THEN LET res == set_reg_as_const(ctx, r2.regs[idx], Zero)
            IN  /\ calls' = Append(calls, RegConstCall(r2.regs[idx], Zero))
                /\ ctx' = res.ctx
                /\ pc' = IF res.ok THEN "defaults" ELSE "panicked"
                /\ idx' = idx + 1
       ELSE /\ pc' = "done"
            /\ UNCHANGED <<ctx, idx, calls>>
    /\ UNCHANGED <<r2, syms, consts, parseVars>>

new_ctx == QueryRegInfo \/ QueryBinInfo \/ BuildContext \/ SymPass \/ ConstPass \/ DefaultPass

---------------------------------------------------------------------------
(* A run is one call of one entry point of the module *)

Init == InitParse \/ InitCtx

Next == CallToKey \/ CallToValtype \/ CallConvertToU64 \/ CallToAssignment \/ new_ctx

Spec == Init /\ [][Next]_vars

\* new_ctx has returned ctx to its caller
Returned == pc = "done"

---------------------------------------------------------------------------
(* What the caller of new_ctx asked for *)

\* the declarations in the order syms, then consts
Decls ==
    [i \in 1..(Len(syms.vec) + Len(consts.vec)) |->
        IF i <= Len(syms.vec)
        THEN [key |-> syms.vec[i], state |-> Symbolic]
        ELSE [key |-> consts.vec[i - Len(syms.vec)].key,
              state |-> Concrete(consts.vec[i - Len(syms.vec)].val)]]

Declared(key) == \E i \in 1..Len(Decls) : Decls[i].key = key

LastDecl(key) ==
    LET is == {i \in 1..Len(Decls) : Decls[i].key = key}
        last == CHOOSE i \in is : \A j \in is : j <= i
    IN  Decls[last].state

DeclCall(d) ==
    IF d.key.tag = "Mem"
    THEN IF d.state.tag = "Symbolic"
         THEN MemSymCall(d.key.addr, 64)
         ELSE MemConstCall(d.key.addr, d.state.n, 64)
    ELSE IF d.state.tag = "Symbolic"
         THEN RegSymCall(d.key.name)
         ELSE RegConstCall(d.key.name, d.state.n)

\* every store operation of a complete bootstrap, in order
ExpectedCalls ==
    [i \in 1..Len(Decls) |-> DeclCall(Decls[i])]
        \o [i \in 1..Len(r2.regs) |-> RegConstCall(r2.regs[i], Zero)]

IsPrefix(a, b) == Len(a) <= Len(b) /\ a = SubSeq(b, 1, Len(a))

InLayout(reg) == \E i \in 1..Len(r2.regs) : r2.regs[i] = reg

\* a declaration names a register the platform did not report
RejectedDecl == \E i \in 1..Len(Decls) : Decls[i].key.tag = "Reg" /\ ~InLayout(Decls[i].key.name)

---------------------------------------------------------------------------
(* Claims about new_ctx *)

\* C1: in the returned context every register declared in syms or consts still
\* holds its declared state; the default pass sets to zero only the registers
\* that were not declared.
C1_DeclarationsSurviveDefaults ==
    Returned =>
        \A i \in 1..Len(r2.regs) :
            LET reg == r2.regs[i] IN
            IF Declared(Reg(reg))
            THEN ctx.regs[reg] = LastDecl(Reg(reg))
            ELSE ctx.regs[reg] = Concrete(Zero)

\* C2: with syms None or empty and consts None or empty, every register the
\* platform reported is concrete zero in the returned context, none symbolic.
C2_NoDeclsAllZero ==
    (Returned /\ syms.vec = <<>> /\ consts.vec = <<>>) =>
        /\ \A i \in 1..Len(r2.regs) : ctx.regs[r2.regs[i]] = Concrete(Zero)
        /\ \A n \in DOMAIN ctx.regs : ctx.regs[n] # Symbolic

C2_Witness ==
    /\ Returned
    /\ ~syms.some
    /\ consts.some /\ consts.vec = <<>>
    /\ Len(r2.regs) = 2
    /\ Len(calls) = 2

C10_DeclarationOrder ==
    /\ IsPrefix(calls, ExpectedCalls)
    /\ pc \in {"defaults", "done"} =>
          \A a \in AddrPool :
              ctx.mem[a] = IF Declared(Mem(a))
                           THEN Cell(LastDecl(Mem(a)), 64)
                           ELSE Unset

C10_Witness ==
    /\ Returned
    /\ Len(r2.regs) > 0
    /\ \E a \in AddrPool :
          /\ \E i \in 1..Len(syms.vec) : syms.vec[i] = Mem(a)
          /\ \E i, j \in 1..Len(consts.vec) :
                /\ i < j
                /\ consts.vec[i].key = Mem(a) /\ consts.vec[j].key = Mem(a)
                /\ consts.vec[i].val # consts.vec[j].val
          /\ ctx.mem[a].state.tag = "Concrete"

====
